---- MODULE Spec2Model ----
(***************************************************************************)
(* Supermarket API (src/main.py): product and user endpoints over a        *)
(* document store, and the stateless cart-total calculator.                *)
(*                                                                         *)
(* Money.  Prices are floats in the source.  Here an amount is an integer  *)
(* number of mills (1/1000 dollar) before rounding and an integer number   *)
(* of cents after round(x, 2).  round(x, 2) returns the nearest cent; at   *)
(* an exact decimal half cent the binary float lies slightly above or      *)
(* below the tie (or on it), so either neighbouring cent is admitted       *)
(* there.  Away from half cents the result is the unique nearest cent.     *)
(*                                                                         *)
(* Store.  The database module (create_document, get_documents) is not     *)
(* part of the source at hand; the adapter follows section 4.3 of the      *)
(* specification: insert appends the payload with an identifier and        *)
(* timestamps, fetch returns up to limit raw records as fresh mappings,    *)
(* and either call may fail with a message.                                *)
(*                                                                         *)
(* Requests.  One request is in flight at a time; each handler makes at    *)
(* most one adapter call, so a handler is one step.                        *)
(***************************************************************************)
EXTENDS Integers, Sequences, FiniteSets, TLC

VARIABLES products, users, nextOid, req, resp, storeLog

vars == <<products, users, nextOid, req, resp, storeLog>>

(* ----------------------------- bounds ---------------------------------- *)
\* documents inserted through the API in one behaviour
MaxDocs == 2
\* line items in one cart
MaxItems == 2
\* largest quantity of one line item
MaxQty == 2

(* ------------------------ program constants ---------------------------- *)
\* tax rate 0.07 as TaxNum / TaxDen
TaxNum == 7
TaxDen == 100
\* free-shipping threshold, dollars
FreeShippingOver == 25
\* flat shipping fee 4.99, in cents
ShippingFeeCents == 499
\* default of the limit query parameter
DefaultLimit == 50
\* pydantic bounds
MinQty == 0
MinPrice == 0
MinAge == 0
MaxAge == 120

Abs(x) == IF x < 0 THEN -x ELSE x
Min(a, b) == IF a < b THEN a ELSE b

(* ------------------------------ values --------------------------------- *)
\* A stored or serialized value: tag names the Python type, s holds a
\* string, a and b hold numbers (ObjectId: a = counter; datetime:
\* a = YYYYMMDD, b = hhmmss; float: a = mills; bool: a = 0 or 1).
Str(s) == [tag |-> "str", s |-> s, a |-> 0, b |-> 0]
Oid(n) == [tag |-> "ObjectId", s |-> "", a |-> n, b |-> 0]
DateTime(d, t) == [tag |-> "datetime", s |-> "", a |-> d, b |-> t]
Float(m) == [tag |-> "float", s |-> "", a |-> m, b |-> 0]
Bool(x) == [tag |-> "bool", s |-> "", a |-> x, b |-> 0]
PyInt(n) == [tag |-> "int", s |-> "", a |-> n, b |-> 0]
None == [tag |-> "None", s |-> "", a |-> 0, b |-> 0]

HexDigits == <<"0", "1", "2", "3", "4", "5", "6", "7", "8", "9", "a", "b", "c", "d", "e", "f">>

\* n written in the given base with exactly w digits
RECURSIVE Digits(_, _, _)
Digits(n, w, base) ==
    IF w = 0 THEN ""
    ELSE Digits(n \div base, w - 1, base) \o HexDigits[(n % base) + 1]

\* datetime.isoformat() of a naive datetime without microseconds
IsoFormat(v) ==
    Digits(v.a \div 10000, 4, 10) \o "-" \o Digits((v.a \div 100) % 100, 2, 10)
        \o "-" \o Digits(v.a % 100, 2, 10) \o "T"
        \o Digits(v.b \div 10000, 2, 10) \o ":" \o Digits((v.b \div 100) % 100, 2, 10)
        \o ":" \o Digits(v.b % 100, 2, 10)

\* str(x) as used on the popped identifier
PyStr(v) ==
    CASE v.tag = "str" -> v.s
      [] v.tag = "ObjectId" -> Digits(v.a, 24, 16)
      [] v.tag = "datetime" ->
            Digits(v.a \div 10000, 4, 10) \o "-" \o Digits((v.a \div 100) % 100, 2, 10)
                \o "-" \o Digits(v.a % 100, 2, 10) \o " "
                \o Digits(v.b \div 10000, 2, 10) \o ":" \o Digits((v.b \div 100) % 100, 2, 10)
                \o ":" \o Digits(v.b % 100, 2, 10)
      [] v.tag = "None" -> "None"
      [] v.tag = "bool" -> IF v.a = 1 THEN "True" ELSE "False"

\* hasattr(x, "isoformat")
HasIsoFormat(v) == v.tag = "datetime"

(* ----------------------------- mappings -------------------------------- *)
\* d[k] = v
Put(d, k, v) == [x \in (DOMAIN d) \cup {k} |-> IF x = k THEN v ELSE d[x]]
\* d without key k
Without(d, k) == [x \in (DOMAIN d) \ {k} |-> d[x]]
\* d.pop(k, default)
PopOr(d, k, default) == IF k \in DOMAIN d THEN d[k] ELSE default

(* ------------------------- Record Normalizer --------------------------- *)
\* the conditional expression of lines 118, 120, 143, 145
IsoOrSame(v) == IF HasIsoFormat(v) THEN Str(IsoFormat(v)) ELSE v

\* one timestamp key of one record
NormalizeTimestamp(d, k) == IF k \in DOMAIN d THEN Put(d, k, IsoOrSame(d[k])) ELSE d

\* d["id"] = str(d.get("_id", "")): the identifier key is left in place
NormalizeId_KeepsKey(d) == Put(d, "id", Str(PyStr(PopOr(d, "_id", Str("")))))

\* d["id"] = str(d.pop("_id", ""))
NormalizeId(d) == Put(Without(d, "_id"), "id", Str(PyStr(PopOr(d, "_id", Str("")))))

\* the loop body without the "created_at" in d guard: KeyError on a missing key
NormalizeDoc_KeyError(d) ==
    IF "created_at" \notin DOMAIN d
    THEN [ok |-> FALSE, doc |-> d, err |-> "'created_at'"]
    ELSE [ok |-> TRUE,
          doc |-> NormalizeTimestamp(NormalizeTimestamp(NormalizeId(d), "created_at"), "updated_at"),
          err |-> ""]

\* The body of the for loop of list_products / list_users on one record:
\* ok = FALSE stands for an exception raised inside the loop body.
NormalizeDoc(d) ==
    [ok |-> TRUE,
     doc |-> NormalizeTimestamp(NormalizeTimestamp(NormalizeId(d), "created_at"), "updated_at"),
     err |-> ""]

\* The for loop: records are rewritten in order, the first exception ends it.
RECURSIVE NormalizeAll(_)
NormalizeAll(docs) ==
    IF docs = <<>> THEN [ok |-> TRUE, docs |-> <<>>, err |-> ""]
    ELSE LET h == NormalizeDoc(Head(docs))
         IN  IF ~h.ok THEN [ok |-> FALSE, docs |-> <<>>, err |-> h.err]
             ELSE LET r == NormalizeAll(Tail(docs))
                  IN  IF ~r.ok THEN r
                      ELSE [ok |-> TRUE, docs |-> <<h.doc>> \o r.docs, err |-> ""]

(* ------------------------- Cart Pricing Engine ------------------------- *)
\* round(num / den, 2) in cents, for an amount of num / den cents
Round2(num, den) ==
    {c \in {num \div den, (num \div den) + 1} : 2 * Abs(num - c * den) <= den}

\* sum(i.price * i.qty for i in items), in mills
RECURSIVE Subtotal(_)
Subtotal(items) ==
    IF items = <<>> THEN 0
    ELSE Head(items).price * Head(items).qty + Subtotal(Tail(items))

\* free shipping from 25 on: subtotal >= 25 in place of subtotal > 25
ShippingFor_Inclusive(S) == IF S = 0 \/ S >= FreeShippingOver * 1000 THEN 0 ELSE ShippingFeeCents

\* 0.0 if subtotal == 0 or subtotal > 25 else 4.99, in cents
ShippingFor(S) == IF S = 0 \/ S > FreeShippingOver * 1000 THEN 0 ELSE ShippingFeeCents

\* tax taken from the rounded subtotal: round(round(subtotal, 2) * 0.07, 2)
TaxFor_FromRounded(S) == UNION {Round2(sub * 10 * TaxNum, TaxDen * 10) : sub \in Round2(S, 10)}

\* round(subtotal * 0.07, 2), in cents
TaxFor(S) == Round2(S * TaxNum, TaxDen * 10)

\* the total without the shipping fee: round(subtotal + tax, 2)
TotalFor_NoShipping(S, tax, shipping) == Round2(S + 10 * tax, 10)

\* round(subtotal + tax + shipping, 2), in cents
TotalFor(S, tax, shipping) == Round2(S + 10 * tax + 10 * shipping, 10)

\* round(subtotal, 2), in cents
SubtotalOut(S) == Round2(S, 10)

\* the CartSummary values compute_cart_summary can return for items
CartSummaries(items) ==
    LET S == Subtotal(items)
        shipping == ShippingFor(S)
    IN  UNION {{[subtotal |-> sub, tax |-> tax, shipping |-> shipping, total |-> total] :
                    sub \in SubtotalOut(S), total \in TotalFor(S, tax, shipping)} :
               tax \in TaxFor(S)}

(* --------------------- request validation (pydantic) ------------------- *)
\* qty: int without the ge=0 bound
ValidCartItem_NoBound(i) == TRUE

\* CartItem: qty: int = Field(..., ge=0); price: float is unconstrained
ValidCartItem(i) == i.qty >= MinQty

\* ProductIn: price: float = Field(..., ge=0)
ValidProductIn(p) == p["price"].a >= MinPrice

\* UserIn: age: Optional[int] = Field(None, ge=0, le=120)
\* (the e-mail addresses of the requests below are all well formed)
ValidUserIn(u) == u["age"].tag = "None" \/ (u["age"].a >= MinAge /\ u["age"].a <= MaxAge)

\* the locations pydantic reports: one per line item with an invalid field
RECURSIVE CartErrors(_, _)
CartErrors(items, n) ==
    IF items = <<>> THEN <<>>
    ELSE (IF ValidCartItem(Head(items)) THEN <<>> ELSE <<[index |-> n, field |-> "qty"]>>)
            \o CartErrors(Tail(items), n + 1)

(* ------------------------ Record Store Adapter ------------------------- *)
\* what one adapter call can do: succeed, or raise with a message
StoreOutcomes == {"ok", "Database not available"}

\* the store's clock at the n-th insertion
Now(n) == DateTime(20240229, 120000 + n)

\* insert(collection_name, payload): the payload plus identifier and timestamps
InsertDoc(coll, payload, oid, now) ==
    Append(coll, Put(Put(Put(payload, "_id", Oid(oid)), "created_at", now), "updated_at", now))

\* fetch(collection_name, limit): up to limit raw records, as fresh mappings
FetchDocs(coll, limit) == SubSeq(coll, 1, Min(limit, Len(coll)))

(* ------------------------- requests, responses ------------------------- *)
EmptyDoc == [k \in {} |-> None]
NoSummary == [subtotal |-> 0, tax |-> 0, shipping |-> 0, total |-> 0]

NoReq == [op |-> "none", payload |-> EmptyDoc, limit |-> 0, items |-> <<>>]
NoResp ==
    [status |-> 0, id |-> "", message |-> "", items |-> <<>>, detail |-> "",
     errors |-> <<>>, summary |-> NoSummary]

\* raise HTTPException(status_code=500, detail=str(e))
ServerError(msg) == [NoResp EXCEPT !.status = 500, !.detail = msg]
\* the framework's answer to a request body that fails validation
Unprocessable(errs) == [NoResp EXCEPT !.status = 422, !.errors = errs]

\* create_product / create_user: try ... return {"id", "message"} except ... 500
CreateResponse(out, id, message) ==
    IF out = "ok" THEN [NoResp EXCEPT !.status = 200, !.id = id, !.message = message]
    ELSE ServerError(out)

\* a handler that swallows the failure and answers with an empty list
ListResponse_Swallow(out, docs) ==
    IF out # "ok" THEN [NoResp EXCEPT !.status = 200]
    ELSE LET n == NormalizeAll(docs)
         IN  [NoResp EXCEPT !.status = 200, !.items = n.docs]

\* list_products / list_users: try ... return {"items": docs} except ... 500
ListResponse(out, docs) ==
    IF out # "ok" THEN ServerError(out)
    ELSE LET n == NormalizeAll(docs)
         IN  IF n.ok THEN [NoResp EXCEPT !.status = 200, !.items = n.docs]
             ELSE ServerError(n.err)

(* ------------------------------- inputs -------------------------------- *)
ProductPayloads ==
    {[title |-> Str("milk"), description |-> None, price |-> Float(1990),
      category |-> Str("dairy"), in_stock |-> Bool(1)],
     [title |-> Str("bread"), description |-> Str("rye"), price |-> Float(2500),
      category |-> Str("bakery"), in_stock |-> Bool(0)],
     [title |-> Str("void"), description |-> None, price |-> Float(-1000),
      category |-> Str("misc"), in_stock |-> Bool(1)]}

UserPayloads ==
    {[name |-> Str("ann"), email |-> Str("ann@shop.example"), address |-> Str("1 Main St"),
      age |-> PyInt(30), is_active |-> Bool(1)],
     [name |-> Str("bob"), email |-> Str("bob@shop.example"), address |-> Str("2 Main St"),
      age |-> PyInt(130), is_active |-> Bool(1)]}

\* Records already in a collection when the process starts, or handed over
\* by the adapter without identifier or timestamps.
LegacyDocs ==
    {[title |-> Str("tea")],
     [title |-> Str("jam"), _id |-> Str("legacy-1"), created_at |-> Str("2023-12-31T08:00:00")],
     [title |-> Str("oil"), _id |-> Oid(4095), updated_at |-> DateTime(20231231, 80500)]}

SeedCollections == {<<>>} \cup {<<d>> : d \in LegacyDocs}

Limits == {1, 2, DefaultLimit}

\* prices in mills: sub-cent prices, the shipping threshold, a negative price
Prices == {72, 625, 10000, 25000, 25010, -10000}
Quantities == (-1) .. MaxQty
CartItems == [price : Prices, qty : Quantities]
Carts == UNION {[1 .. n -> CartItems] : n \in 0 .. MaxItems}
SampleCarts ==
    {<<>>, <<[price |-> 10000, qty |-> 2]>>, <<[price |-> 625, qty |-> 1]>>,
     <<[price |-> 10000, qty |-> 1], [price |-> 72, qty |-> -1]>>}

CartRequest(items) == [NoReq EXCEPT !.op = "cart_summary", !.items = items]

Requests ==
    {[NoReq EXCEPT !.op = "create_product", !.payload = p] : p \in ProductPayloads}
    \cup {[NoReq EXCEPT !.op = "create_user", !.payload = u] : u \in UserPayloads}
    \cup {[NoReq EXCEPT !.op = "list_products", !.limit = l] : l \in Limits}
    \cup {[NoReq EXCEPT !.op = "list_users", !.limit = l] : l \in Limits}
    \cup {CartRequest(c) : c \in SampleCarts}

IsCreate(r) == r.op \in {"create_product", "create_user"}

(* ------------------------------ behaviour ------------------------------ *)
Init ==
    /\ products \in SeedCollections
    /\ users \in SeedCollections
    /\ nextOid = 0
    /\ req = NoReq
    /\ resp = NoResp
    /\ storeLog = <<>>

\* A request reaches the server once the previous one has been answered.
Arrive ==
    /\ req.op = "none" \/ resp.status # 0
    /\ \E r \in Requests :
          /\ IsCreate(r) => nextOid < MaxDocs
          /\ req' = r
    /\ resp' = NoResp
    /\ storeLog' = <<>>
    /\ UNCHANGED <<products, users, nextOid>>

\* POST /api/products
CreateProduct ==
    /\ req.op = "create_product" /\ resp.status = 0
    /\ IF ~ValidProductIn(req.payload)
       THEN /\ resp' = Unprocessable(<<[index |-> 0, field |-> "price"]>>)
            /\ UNCHANGED <<products, nextOid, storeLog>>
       ELSE \E out \in StoreOutcomes :
              /\ storeLog' = Append(storeLog, out)
              /\ products' = IF out = "ok"
                                THEN InsertDoc(products, req.payload, nextOid, Now(nextOid))
                                ELSE products
              /\ nextOid' = IF out = "ok" THEN nextOid + 1 ELSE nextOid
              /\ resp' = CreateResponse(out, PyStr(Oid(nextOid)), "Product created")
    /\ UNCHANGED <<users, req>>

\* the loop rewriting the stored records themselves instead of fetched copies
ListProducts_InPlace ==
    /\ req.op = "list_products" /\ resp.status = 0
    /\ \E out \in StoreOutcomes :
          /\ storeLog' = Append(storeLog, out)
          /\ resp' = ListResponse(out, FetchDocs(products, req.limit))
          /\ products' = IF resp'.status = 200
                            THEN resp'.items \o SubSeq(products, Len(resp'.items) + 1, Len(products))
                            ELSE products
    /\ UNCHANGED <<users, nextOid, req>>

\* GET /api/products
ListProducts ==
    /\ req.op = "list_products" /\ resp.status = 0
    /\ \E out \in StoreOutcomes :
          /\ storeLog' = Append(storeLog, out)
          /\ resp' = ListResponse(out, FetchDocs(products, req.limit))
    /\ UNCHANGED <<products, users, nextOid, req>>

\* POST /api/users
CreateUser ==
    /\ req.op = "create_user" /\ resp.status = 0
    /\ IF ~ValidUserIn(req.payload)
       THEN /\ resp' = Unprocessable(<<[index |-> 0, field |-> "age"]>>)
            /\ UNCHANGED <<users, nextOid, storeLog>>
       ELSE \E out \in StoreOutcomes :
              /\ storeLog' = Append(storeLog, out)
              /\ users' = IF out = "ok"
                             THEN InsertDoc(users, req.payload, nextOid, Now(nextOid))
                             ELSE users
              /\ nextOid' = IF out = "ok" THEN nextOid + 1 ELSE nextOid
              /\ resp' = CreateResponse(out, PyStr(Oid(nextOid)), "User created")
    /\ UNCHANGED <<products, req>>

\* GET /api/users
ListUsers ==
    /\ req.op = "list_users" /\ resp.status = 0
    /\ \E out \in StoreOutcomes :
          /\ storeLog' = Append(storeLog, out)
          /\ resp' = ListResponse(out, FetchDocs(users, req.limit))
    /\ UNCHANGED <<products, users, nextOid, req>>

\* POST /api/cart/summary
CartSummary ==
    /\ req.op = "cart_summary" /\ resp.status = 0
    /\ IF CartErrors(req.items, 0) # <<>>
       THEN resp' = Unprocessable(CartErrors(req.items, 0))
       ELSE \E s \in CartSummaries(req.items) :
              resp' = [NoResp EXCEPT !.status = 200, !.summary = s]
    /\ UNCHANGED <<products, users, nextOid, req, storeLog>>

Next == Arrive \/ CreateProduct \/ ListProducts \/ CreateUser \/ ListUsers \/ CartSummary

Spec == Init /\ [][Next]_vars

\* The pricing engine alone, on every cart within the bounds.
InitCart ==
    /\ products = <<>>
    /\ users = <<>>
    /\ nextOid = 0
    /\ req \in {CartRequest(c) : c \in Carts}
    /\ resp = NoResp
    /\ storeLog = <<>>

NextCart == CartSummary

SpecCart == InitCart /\ [][NextCart]_vars

(* ------------------------------- claims -------------------------------- *)
\* the cart request in flight has been answered with a CartSummary
CartAccepted == req.op = "cart_summary" /\ resp.status = 200
\* the cart request in flight has been answered, one way or the other
CartAnswered == req.op = "cart_summary" /\ resp.status # 0
HasNegativeQty(items) == \E i \in 1 .. Len(items) : items[i].qty < 0
WholeCentPrices(items) == \A i \in 1 .. Len(items) : items[i].price % 10 = 0

\* C1: for every accepted cart with unrounded subtotal S, shipping is 0.00
\* when S = 0 or S > 25 and 4.99 otherwise; S = 25.00 gives 4.99 and
\* S = 25.01 gives 0.00.
Thm_C1_Shipping ==
    CartAccepted =>
        LET S == Subtotal(req.items)
        IN  /\ resp.summary.shipping = IF S = 0 \/ S > 25000 THEN 0 ELSE 499
            /\ S = 25000 => resp.summary.shipping = 499
            /\ S = 25010 => resp.summary.shipping = 0

\* C1 witness: a cart of exactly 25.00 has been charged the 4.99 fee.
Wit_C1_AtThreshold ==
    CartAccepted /\ Subtotal(req.items) = 25000 /\ resp.summary.shipping = 499

\* C2: rounding is applied stage by stage on the unrounded subtotal S: the
\* returned subtotal is S rounded to the cent, the tax is S * 0.07 rounded to
\* the cent (from S, not from the rounded subtotal), the total is
\* S + tax + shipping rounded to the cent; the empty cart gives all zeros and
\* one item of 10.00 x 2 gives 20.00, 1.40, 4.99, 26.39.
Thm_C2_StagedRounding ==
    CartAccepted =>
        LET S == Subtotal(req.items)
            r == resp.summary
        IN  /\ 2 * Abs(S - 10 * r.subtotal) <= 10
            /\ 2 * Abs(7 * S - 1000 * r.tax) <= 1000
            /\ 2 * Abs(S + 10 * r.tax + 10 * r.shipping - 10 * r.total) <= 10
            /\ req.items = <<>> => S = 0 /\ r = NoSummary
            /\ req.items = <<[price |-> 10000, qty |-> 2]>> =>
                    r = [subtotal |-> 2000, tax |-> 140, shipping |-> 499, total |-> 2639]

\* C2 witness: a cart of 0.072 is answered with tax 0.01, which is
\* round(0.072 * 0.07, 2) and not round(0.07 * 0.07, 2) = 0.00.
Wit_C2_TaxFromUnrounded ==
    CartAccepted /\ Subtotal(req.items) = 72 /\ resp.summary.subtotal = 7
        /\ resp.summary.tax = 1

\* C3: a cart-summary request with a negative quantity is rejected by
\* validation as a client error naming the offending fields; the pricing
\* computation is not run on it and no CartSummary is returned for it.
Thm_C3_NegativeQtyRejected ==
    /\ (CartAnswered /\ HasNegativeQty(req.items)) =>
            /\ resp.status = 422
            /\ resp.summary = NoSummary
            /\ \A i \in 1 .. Len(req.items) :
                  req.items[i].qty < 0 <=>
                      \E e \in 1 .. Len(resp.errors) :
                          resp.errors[e] = [index |-> i - 1, field |-> "qty"]
    /\ CartAccepted => ~HasNegativeQty(req.items)

\* C3 witness: a cart with a negative quantity has been answered 422.
Wit_C3_Rejected ==
    CartAnswered /\ HasNegativeQty(req.items) /\ resp.status = 422

\* C9 (as claimed): for every accepted cart the returned subtotal, tax and
\* total are >= 0, and the 4.99 fee is charged only when 0 < S <= 25.
Claim_C9_NonNegative ==
    CartAccepted =>
        /\ resp.summary.subtotal >= 0
        /\ resp.summary.tax >= 0
        /\ resp.summary.total >= 0
        /\ resp.summary.shipping = 499 =>
                (0 < Subtotal(req.items) /\ Subtotal(req.items) <= 25000)

\* C10 (as claimed): for every accepted cart, returned total = returned
\* subtotal + returned tax + returned shipping.
Claim_C10_Consistent ==
    CartAccepted =>
        resp.summary.total = resp.summary.subtotal + resp.summary.tax + resp.summary.shipping

\* C10 (amended): for every accepted cart whose prices are whole numbers of
\* cents, total = subtotal + tax + shipping; for every other accepted cart
\* the total differs from that sum by at most one cent.
Thm_C10_ConsistentWholeCents ==
    CartAccepted =>
        LET r == resp.summary
        IN  /\ WholeCentPrices(req.items) => r.total = r.subtotal + r.tax + r.shipping
            /\ Abs(r.total - (r.subtotal + r.tax + r.shipping)) <= 1

\* C10 witness: a cart of whole-cent prices charged tax and shipping.
Wit_C10_WholeCents ==
    CartAccepted /\ WholeCentPrices(req.items) /\ resp.summary.shipping = 499
        /\ resp.summary.tax > 0 /\ resp.summary.total = 2639

\* the list request in flight has been answered
IsList(r) == r.op \in {"list_products", "list_users"}
ListAnswered == IsList(req) /\ resp.status # 0
ListSucceeded == IsList(req) /\ resp.status = 200
\* the collection the request in flight is about
Collection == IF req.op \in {"list_products", "create_product"} THEN products ELSE users
\* the raw records the list request in flight was handed by the adapter
Fetched == FetchDocs(Collection, req.limit)
TimestampKeys == {"created_at", "updated_at"}

\* C4 (as claimed): normalizing an already normalized record a second time
\* leaves it unchanged in every field, including its id and timestamps.
Claim_C4_Idempotent ==
    ListSucceeded =>
        \A i \in 1 .. Len(resp.items) : NormalizeDoc(resp.items[i]).doc = resp.items[i]

\* C5: every listed record has no _id key and an id key holding the string
\* form of the stored identifier, or "" when the raw record had none; a
\* record inserted through the API is stored with an identifier, the create
\* response carries its string form, and it is listed with a non-empty id.
Thm_C5_PublicId ==
    /\ ListSucceeded =>
          /\ Len(resp.items) = Len(Fetched)
          /\ \A i \in 1 .. Len(resp.items) :
                LET raw == Fetched[i]
                    out == resp.items[i]
                IN  /\ "_id" \notin DOMAIN out
                    /\ "id" \in DOMAIN out
                    /\ out["id"].tag = "str"
                    /\ "_id" \notin DOMAIN raw => out["id"].s = ""
                    /\ "_id" \in DOMAIN raw => out["id"].s = PyStr(raw["_id"])
                    /\ ("_id" \in DOMAIN raw /\ raw["_id"].tag = "ObjectId") =>
                          /\ out["id"].s = Digits(raw["_id"].a, 24, 16)
                          /\ out["id"].s # ""
    /\ (IsCreate(req) /\ resp.status = 200) =>
          /\ Collection # <<>>
          /\ "_id" \in DOMAIN Collection[Len(Collection)]
          /\ resp.id = PyStr(Collection[Len(Collection)]["_id"])
          /\ resp.id # ""

\* C5 witness: a record inserted through the API is listed under the string
\* form of its identifier.
Wit_C5_InsertedListed ==
    /\ ListSucceeded
    /\ \E i \in 1 .. Len(resp.items) :
          /\ "_id" \in DOMAIN Fetched[i]
          /\ Fetched[i]["_id"] = Oid(0)
          /\ resp.items[i]["id"] = Str("000000000000000000000000")

\* C6: normalization never fails on a missing key: when the adapter call
\* succeeds the list operation succeeds, the output has exactly the timestamp
\* keys of the raw record, a date/time is replaced by its ISO-8601 string and
\* any other timestamp value is passed through unchanged.
Thm_C6_MissingKeys ==
    (ListAnswered /\ storeLog = <<"ok">>) =>
        /\ resp.status = 200
        /\ Len(resp.items) = Len(Fetched)
        /\ \A i \in 1 .. Len(resp.items) : \A k \in TimestampKeys :
              LET raw == Fetched[i]
                  out == resp.items[i]
              IN  /\ k \in DOMAIN out <=> k \in DOMAIN raw
                  /\ (k \in DOMAIN raw /\ raw[k].tag = "datetime") =>
                        out[k] = Str(IsoFormat(raw[k]))
                  /\ (k \in DOMAIN raw /\ raw[k].tag # "datetime") => out[k] = raw[k]
                  /\ raw = [title |-> Str("oil"), _id |-> Oid(4095),
                            updated_at |-> DateTime(20231231, 80500)] =>
                        out = [title |-> Str("oil"), id |-> Str("000000000000000000000fff"),
                               updated_at |-> Str("2023-12-31T08:05:00")]

\* C6 witness: a raw record without identifier and timestamps has been listed.
Wit_C6_BareRecord ==
    /\ ListSucceeded
    /\ \E i \in 1 .. Len(resp.items) :
          /\ Fetched[i] = [title |-> Str("tea")]
          /\ resp.items[i] = [title |-> Str("tea"), id |-> Str("")]

Thm_C8_ProductsImmutable ==
    [][/\ Len(products') >= Len(products)
       /\ \A i \in 1 .. Len(products) : products'[i] = products[i]
       /\ products' # products =>
             /\ req.op = "create_product"
             /\ Len(products') = Len(products) + 1
             /\ \A k \in DOMAIN req.payload :
                   /\ k \in DOMAIN products'[Len(products')]
                   /\ products'[Len(products')][k] = req.payload[k]]_vars

\* C8 witness: a created product has been listed, and the stored record still
\* holds its identifier and its date/time values.
Wit_C8_ListedAfterCreate ==
    /\ req.op = "list_products" /\ resp.status = 200
    /\ \E i \in 1 .. Len(resp.items) :
          /\ resp.items[i]["title"] = Str("milk")
          /\ resp.items[i]["created_at"].tag = "str"
          /\ products[i]["title"] = Str("milk")
          /\ products[i]["_id"].tag = "ObjectId"
          /\ products[i]["created_at"].tag = "datetime"

====
